---- MODULE Spec2Model ----
(***************************************************************************)
(* Reconstruction of nested parquet columns in arrow2:                     *)
(*   io/parquet/read/nested_utils.rs  (Level States, extend_offsets,       *)
(*                                     init_nested, create_list)           *)
(*   io/parquet/read/primitive/mod.rs (iter_to_array, stream_to_array)     *)
(* and checked division of primitive arrays:                               *)
(*   compute/arithmetics/basic/div.rs (checked_div, checked_div_scalar)    *)
(* Depths are 0-based as in the source; TLA+ sequences are 1-based, so the *)
(* Level State of depth d is nested[d + 1].                                *)
(***************************************************************************)
EXTENDS Integers, Sequences, FiniteSets, TLC

VARIABLES
    overflow_checks, \* build profile: TRUE = arithmetic overflow panics (debug), FALSE = wraps (release)
    field,           \* the column's logical schema (Field)
    source,          \* the page source: the ordered page results it will yield
    nested,          \* the Nested State Stack (Vec<Box<dyn Nested>>)
    pc,              \* position of the synchronous decode of the column
    is_nullable,     \* iter_to_array: flag read from the popped innermost Level State
    values,          \* iter_to_array: leaf value buffer
    validity,        \* iter_to_array: leaf validity bitmap
    pulled,          \* iter_to_array: number of items pulled from the page source
    result,          \* iter_to_array: returned Result
    levels_run,      \* iter_to_array: number of pages the Level Decoder ran on
    pushes,          \* push calls made by the most recent extend_offsets call
    a_pc,            \* position of stream_to_array
    a_values,        \* stream_to_array: leaf value buffer
    a_validity,      \* stream_to_array: leaf validity bitmap
    a_pulled,        \* stream_to_array: number of items pulled from the page stream
    a_result,        \* stream_to_array: returned Result
    a_levels_run,    \* stream_to_array: number of pages the Level Decoder ran on
    array,           \* the array materialised so far (create_list's `values` argument)
    cl_result,       \* outcome of the most recent create_list call
    value,           \* the list value whose level encoding the page source holds, if it holds one
    lhs,             \* checked division: the dividend array
    rhs,             \* checked division: the divisor, an array or a scalar
    div_result       \* checked division: outcome of the call

vars == <<overflow_checks, field, source, nested, pc, is_nullable, values, validity,
          pulled, result, levels_run, pushes, a_pc, a_values, a_validity, a_pulled,
          a_result, a_levels_run, array, cl_result, value, lhs, rhs, div_result>>

----------------------------------------------------------------------------
(* Bounds of the model *)

\* total number of level pairs a page source yields for one column
MaxSlots == 2
\* number of pages a page source yields for one column
MaxPages == 2
\* number of fields (schema nodes) of a schema drawn for init_nested
MaxFields == 3
\* number of outer slots of a list value that is encoded and decoded
MaxLists == 3
\* number of leaf elements of one inner list of such a value
MaxElems == 2
\* number of slots of an array operand of a division
MaxLen == 2
\* number of rows of a list of lists that is encoded and decoded
MaxRows == 2
\* number of inner lists of one row of such a value
MaxInner == 2

----------------------------------------------------------------------------
(* Machine integers *)

\* A u32 is kept as its residue modulo 2^32 in (-2^31, 2^31): a negative n stands
\* for 2^32 + n, the value a wrapped subtraction leaves. Every operand of the model
\* is far below 2^31, so sums and differences of residues are exact.

\* a - b on u32 in a build without overflow checks
WrappingSubU32(a, b) == a - b

\* a - b on u32 panics in a build with overflow checks when b > a
SubUnderflows(a, b) == b > a

SaturatingSubU32(a, b) == IF b > a THEN 0 ELSE a - b

\* `x as usize` of a u32 residue equals the usize d (d far below 2^31)
UsizeEq(x, d) == x >= 0 /\ x = d

\* `x as i32` on an i64 keeps the low 32 bits. The integers of this model are those
\* of [-2^31, 2^31), on which the truncation changes nothing.
AsI32(x) == x

\* offsets.iter().map(|x| *x as i32)
OffsetsAsI32(offsets) == [i \in 1..Len(offsets) |-> AsI32(offsets[i])]

Front(s) == SubSeq(s, 1, Len(s) - 1)

Last(s) == s[Len(s)]

----------------------------------------------------------------------------
(* Level States: the three implementations of trait Nested *)

NestedPrimitive(nullable) ==
    [kind |-> "Primitive", is_nullable |-> nullable, offsets |-> <<>>, validity |-> <<>>]

NestedOptional == [kind |-> "Optional", is_nullable |-> TRUE, offsets |-> <<>>, validity |-> <<>>]

NestedValid == [kind |-> "Valid", is_nullable |-> FALSE, offsets |-> <<>>, validity |-> <<>>]

IsContainer(ls) == ls.kind \in {"Optional", "Valid"}

\* Nested::push
Push(ls, length, is_valid) ==
    CASE ls.kind = "Primitive" -> ls
      [] ls.kind = "Optional" ->
            [ls EXCEPT !.offsets = Append(@, length), !.validity = Append(@, is_valid)]
      [] ls.kind = "Valid" -> [ls EXCEPT !.offsets = Append(@, length)]

\* Nested::close
Close(ls, length) ==
    IF ls.kind = "Primitive" THEN ls ELSE [ls EXCEPT !.offsets = Append(@, length)]

\* Nested::is_nullable
IsNullable(ls) == ls.is_nullable

\* Nested::inner: drains the level; validity is None for the variants that keep none
Inner(ls) ==
    [offsets |-> ls.offsets,
     validity |-> IF ls.kind = "Optional"
                    THEN [some |-> TRUE, bits |-> ls.validity]
                    ELSE [some |-> FALSE, bits |-> <<>>]]

----------------------------------------------------------------------------
(* extend_offsets *)

\* number of Level States the `.skip(rep).take(rep + closures)` adaptor yields
Take(rep, closures) == rep + closures

\* depths visited by `.enumerate().skip(rep).take(rep + closures)` over the stack
Window(rep, closures, len) ==
    LET n == Take(rep, closures)
    IN  {d \in 0..(len - 1) : d >= rep /\ (n < 0 \/ d < rep + n)}

\* the closure count without the override for a shallow previous definition level
ClosuresWithoutShallowOverride(rep, prev_def, is_first, max_rep) ==
    IF is_first THEN max_rep ELSE WrappingSubU32(max_rep, rep)

\* closure count of one level pair
Closures(rep, prev_def, is_first, max_rep) ==
    IF is_first THEN max_rep
    ELSE IF prev_def <= 1 THEN 1
    ELSE WrappingSubU32(max_rep, rep)

\* is_null of the push closure at one depth
IsNull(rep, def, depth) == UsizeEq(WrappingSubU32(def, rep), depth) /\ depth = rep

\* values_count update that counts every slot that starts or continues a list
CountsEverySlot(depth, rep, def, nullable, max_def, stack) ==
    IF depth = 1
    THEN def = max_def \/ (nullable /\ def = WrappingSubU32(max_def, 1))
    ELSE IF depth = 0
    THEN rep = 1 \/ rep = 0
    ELSE FALSE

\* values_count update of one depth
CountsValue(depth, rep, def, nullable, max_def, stack) ==
    IF depth = 1
    THEN def = max_def \/ (nullable /\ def = WrappingSubU32(max_def, 1))
    ELSE IF depth = 0
    THEN LET a == IF Len(stack) >= 2 THEN IsNullable(stack[2]) ELSE FALSE
             n == (IF a THEN 1 ELSE 0) + (IF nullable THEN 1 ELSE 0)
         IN  rep = 1 \/ (rep = 0 /\ def >= SaturatingSubU32(max_def, n))
    ELSE FALSE

\* the body of the for_each over the zipped level pairs; st is the running state
\* [nested, values_count, prev_def, is_first, seen, panicked, pushes]; seen counts the
\* pairs already processed and pushes records, per depth, every push call made
LevelPair(st, rep, def, nullable, max_rep, max_def, checks) ==
    LET len == Len(st.nested)
        closures == Closures(rep, st.prev_def, st.is_first, max_rep)
        win == Window(rep, closures, len)
        early == SubUnderflows(max_rep, rep)
                    \/ (win # {} /\ SubUnderflows(def, rep))
    IN  IF st.panicked THEN st
        ELSE IF checks /\ early THEN [st EXCEPT !.panicked = TRUE]
        ELSE LET pushed ==
                    [i \in 1..len |->
                        IF (i - 1) \in win
                        THEN Push(st.nested[i], st.values_count[i], ~IsNull(rep, def, i - 1))
                        ELSE st.nested[i]]
                 log == [i \in 1..len |->
                            IF (i - 1) \in win
                            THEN <<[pair |-> st.seen,
                                    length |-> st.values_count[i],
                                    is_valid |-> ~IsNull(rep, def, i - 1)]>>
                            ELSE <<>>]
                 late == checks
                            /\ len >= 2 /\ def # max_def /\ nullable
                            /\ SubUnderflows(max_def, 1)
                 counted ==
                    [i \in 1..len |->
                        IF CountsValue(i - 1, rep, def, nullable, max_def, pushed)
                        THEN st.values_count[i] + 1
                        ELSE st.values_count[i]]
             IN  [nested |-> pushed,
                  values_count |-> IF late THEN st.values_count ELSE counted,
                  prev_def |-> def,
                  is_first |-> FALSE,
                  seen |-> st.seen + 1,
                  panicked |-> late,
                  pushes |-> [i \in 1..len |-> st.pushes[i] \o log[i]]]

RECURSIVE LevelPairs(_, _, _, _, _, _)
LevelPairs(st, levels, nullable, max_rep, max_def, checks) ==
    IF levels = <<>> THEN st
    ELSE LevelPairs(LevelPair(st, Head(levels)[1], Head(levels)[2], nullable, max_rep, max_def,
                              checks),
                    Tail(levels), nullable, max_rep, max_def, checks)

\* the locals extend_offsets starts every call with
FreshCall(stack) ==
    [nested |-> stack,
     values_count |-> [i \in 1..Len(stack) |-> 0],
     prev_def |-> 0,
     is_first |-> TRUE,
     seen |-> 0,
     panicked |-> FALSE,
     pushes |-> [i \in 1..Len(stack) |-> <<>>]]

\* "close validities"
CloseAll(st) ==
    IF st.panicked THEN st
    ELSE [st EXCEPT !.nested = [i \in 1..Len(st.nested) |->
                                    Close(st.nested[i], st.values_count[i])]]

\* extend_offsets(rep_levels, def_levels, is_nullable, max_rep, max_def, nested);
\* levels is the zip of the two level iterators, checks the build's overflow checks
ExtendOffsets(levels, nullable, max_rep, max_def, stack, checks) ==
    CloseAll(LevelPairs(FreshCall(stack), levels, nullable, max_rep, max_def, checks))

----------------------------------------------------------------------------
(* Schema: Field and DataType *)

DataType(tag, fields) == [tag |-> tag, fields |-> fields]

Field(data_type, nullable) == [data_type |-> data_type, is_nullable |-> nullable]

Int32 == DataType("Int32", <<>>)

\* Dictionary(keys, values): the values type is kept as the single child
Dictionary(value_type) == DataType("Dictionary", <<Field(value_type, FALSE)>>)

LeafTags == {"Int32", "Dictionary"}

ListTags == {"List", "LargeList", "FixedSizeList"}

\* DataType::to_physical_type, as far as init_nested distinguishes physical types
PhysicalType(data_type) ==
    CASE data_type.tag \in LeafTags -> "Leaf"
      [] data_type.tag \in ListTags -> "ListLike"
      [] data_type.tag = "Struct" -> "Struct"
      [] OTHER -> "Other"

----------------------------------------------------------------------------
(* init_nested *)

RECURSIVE init_nested(_, _)
RECURSIVE InitChildren(_, _)

\* fields.iter().for_each(|field| init_nested(field, capacity, container))
InitChildren(fields, acc) ==
    IF fields = <<>> \/ acc.panicked THEN acc
    ELSE InitChildren(Tail(fields), init_nested(Head(fields), acc.container))

\* init_nested that gives every list-like field an Optional Level State
InitNestedAlwaysOptional(f, container) ==
    LET nullable == f.is_nullable
        phys == PhysicalType(f.data_type)
    IN  CASE phys = "Leaf" ->
                [container |-> Append(container, NestedPrimitive(nullable)), panicked |-> FALSE]
          [] phys = "ListLike" ->
                init_nested(f.data_type.fields[1], Append(container, NestedOptional))
          [] phys = "Struct" ->
                InitChildren(f.data_type.fields,
                             [container |-> Append(container, NestedPrimitive(nullable)),
                              panicked |-> FALSE])
          [] OTHER -> [container |-> container, panicked |-> TRUE]

\* init_nested(field, capacity, container); capacity only pre-sizes the buffers.
\* Returns the container and whether the walk hit todo!().
init_nested(f, container) ==
    LET nullable == f.is_nullable
        phys == PhysicalType(f.data_type)
    IN  CASE phys = "Leaf" ->
                [container |-> Append(container, NestedPrimitive(nullable)), panicked |-> FALSE]
          [] phys = "ListLike" ->
                init_nested(f.data_type.fields[1],
                            Append(container, IF nullable THEN NestedOptional ELSE NestedValid))
          [] phys = "Struct" ->
                InitChildren(f.data_type.fields,
                             [container |-> Append(container, NestedPrimitive(nullable)),
                              panicked |-> FALSE])
          [] OTHER -> [container |-> container, panicked |-> TRUE]

----------------------------------------------------------------------------
(* create_list *)

PrimitiveArray(data_type, vals, valid) ==
    [array |-> "Primitive", data_type |-> data_type, values |-> vals, validity |-> valid]

ListArray(data_type, offsets, child, valid) ==
    [array |-> "List", data_type |-> data_type, offsets |-> offsets, values |-> child,
     validity |-> valid]

NotYetImplemented(data_type) ==
    [error |-> "NotYetImplemented", message |-> <<"Read nested datatype", data_type>>]

\* create_list that pops the Level State before it looks at the target type
CreateListPopsFirst(data_type, stack, child) ==
    IF stack = <<>>
    THEN [outcome |-> "panic", nested |-> stack]
    ELSE LET in == Inner(Last(stack))
         IN  CASE data_type.tag = "List" ->
                    [outcome |-> "ok",
                     value |-> ListArray(data_type, OffsetsAsI32(in.offsets), child, in.validity),
                     nested |-> Front(stack)]
               [] data_type.tag = "LargeList" ->
                    [outcome |-> "ok",
                     value |-> ListArray(data_type, in.offsets, child, in.validity),
                     nested |-> Front(stack)]
               [] OTHER ->
                    [outcome |-> "err", value |-> NotYetImplemented(data_type),
                     nested |-> Front(stack)]

\* create_list(data_type, nested, values): the returned Result and the stack it leaves;
\* nested.pop().unwrap() panics on an empty stack
create_list(data_type, stack, child) ==
    CASE data_type.tag = "List" ->
            IF stack = <<>>
            THEN [outcome |-> "panic", nested |-> stack]
            ELSE LET in == Inner(Last(stack))
                 IN  [outcome |-> "ok",
                      value |-> ListArray(data_type, OffsetsAsI32(in.offsets), child, in.validity),
                      nested |-> Front(stack)]
      [] data_type.tag = "LargeList" ->
            IF stack = <<>>
            THEN [outcome |-> "panic", nested |-> stack]
            ELSE LET in == Inner(Last(stack))
                 IN  [outcome |-> "ok",
                      value |-> ListArray(data_type, in.offsets, child, in.validity),
                      nested |-> Front(stack)]
      [] OTHER ->
            [outcome |-> "err", value |-> NotYetImplemented(data_type), nested |-> stack]

----------------------------------------------------------------------------
(* Column descriptor and page source *)

RECURSIVE MaxRepLevel(_)
\* ColumnDescriptor::max_rep_level of the leaf column of a single-path schema:
\* one repetition level per list-like ancestor
MaxRepLevel(f) ==
    LET here == IF PhysicalType(f.data_type) = "ListLike" THEN 1 ELSE 0
    IN  IF f.data_type.fields = <<>> \/ PhysicalType(f.data_type) = "Leaf" THEN here
        ELSE here + MaxRepLevel(f.data_type.fields[1])

RECURSIVE MaxDefLevel(_)
\* ColumnDescriptor::max_def_level: one definition level per nullable field and
\* one per list-like field on the path
MaxDefLevel(f) ==
    LET here == (IF PhysicalType(f.data_type) = "ListLike" THEN 1 ELSE 0)
                    + (IF f.is_nullable THEN 1 ELSE 0)
    IN  IF f.data_type.fields = <<>> \/ PhysicalType(f.data_type) = "Leaf" THEN here
        ELSE here + MaxDefLevel(f.data_type.fields[1])

RECURSIVE LeafType(_)
\* the data type of the leaf column, which the caller hands to the orchestration
LeafType(f) ==
    IF f.data_type.fields = <<>> \/ PhysicalType(f.data_type) = "Leaf" THEN f.data_type
    ELSE LeafType(f.data_type.fields[1])

\* one level pair of a page
LevelPairsOf(f) == (0..MaxRepLevel(f)) \X (0..MaxDefLevel(f))

RECURSIVE SeqsOfLen(_, _)
SeqsOfLen(S, n) ==
    IF n = 0 THEN {<<>>}
    ELSE {<<x>> \o t : x \in S, t \in SeqsOfLen(S, n - 1)}

\* a data page the source yields, and a failure it yields
OkPage(levels) == [ok |-> TRUE, levels |-> levels]

ErrPage == [ok |-> FALSE, levels |-> <<>>]

RECURSIVE PageSeqs(_, _, _)
\* sequences of exactly n data pages holding at most `slots` level pairs in all
PageSeqs(f, n, slots) ==
    IF n = 0 THEN {<<>>}
    ELSE UNION {{<<p>> \o t : p \in {OkPage(l) : l \in SeqsOfLen(LevelPairsOf(f), k)},
                              t \in PageSeqs(f, n - 1, slots - k)} : k \in 1..slots}

\* the page sequence with a failure yielded before its item number k
WithFailure(pages, k) == SubSeq(pages, 1, k - 1) \o <<ErrPage>> \o SubSeq(pages, k, Len(pages))

\* what a page source can yield for column f: up to MaxPages data pages, and at most
\* one failure anywhere among them
Tapes(f) ==
    LET pages == UNION {PageSeqs(f, n, MaxSlots) : n \in 0..MaxPages}
    IN  pages \cup UNION {{WithFailure(t, k) : k \in 1..(Len(t) + 1)} : t \in pages}

\* the error the page source fails with, converted by ArrowError::from
SourceError == [error |-> "External", cause |-> "page source failure"]

\* physical leaf value carried by slot i of the page pulled as item number p
PhysicalValue(p, i) == p * (MaxSlots + 1) + i

\* the caller's `op: Fn(T) -> A`, a widening cast of the physical value
Op(v) == v

\* schemas of the columns decoded by the pipeline
Columns ==
    { Field(Int32, TRUE),
      Field(Dictionary(Int32), FALSE),
      Field(DataType("List", <<Field(Int32, FALSE)>>), TRUE),
      Field(DataType("LargeList", <<Field(Int32, TRUE)>>), FALSE),
      Field(DataType("Struct", <<Field(DataType("List", <<Field(Int32, FALSE)>>), FALSE)>>), TRUE),
      Field(DataType("List", <<Field(DataType("List", <<Field(Int32, FALSE)>>), FALSE)>>), TRUE) }

----------------------------------------------------------------------------
(* Per-page leaf decoders *)

RECURSIVE BasicLeaf(_, _, _, _, _)
\* basic::extend_from_page: one leaf slot per definition level of a flat page
BasicLeaf(levels, i, p, max_def, buf) ==
    IF i > Len(levels) THEN buf
    ELSE LET def == levels[i][2]
             next == IF def = max_def
                     THEN [values |-> Append(buf.values, Op(PhysicalValue(p, i))),
                           validity |-> Append(buf.validity, TRUE)]
                     ELSE [values |-> Append(buf.values, 0),
                           validity |-> Append(buf.validity, FALSE)]
         IN  BasicLeaf(levels, i + 1, p, max_def, next)

RECURSIVE NestedLeaf(_, _, _, _, _, _)
\* nested::extend_from_page, leaf part: a value where def = max_def, a null where the
\* leaf is nullable and def = max_def - 1, nothing for slots that end above the leaf
NestedLeaf(levels, i, p, nullable, max_def, buf) ==
    IF i > Len(levels) THEN buf
    ELSE LET def == levels[i][2]
             next == IF def = max_def
                     THEN [values |-> Append(buf.values, Op(PhysicalValue(p, i))),
                           validity |-> Append(buf.validity, TRUE)]
                     ELSE IF nullable /\ def = max_def - 1
                     THEN [values |-> Append(buf.values, 0),
                           validity |-> Append(buf.validity, FALSE)]
                     ELSE buf
         IN  NestedLeaf(levels, i + 1, p, nullable, max_def, next)

----------------------------------------------------------------------------
(* Results *)

NoResult == [tag |-> "none"]

Ok(v) == [tag |-> "ok", value |-> v]

Err(e) == [tag |-> "err", error |-> e]

Panic == [tag |-> "panic"]

\* the match that unwraps a dictionary type before building the array
OutputType(data_type) ==
    IF data_type.tag = "Dictionary" THEN data_type.fields[1].data_type ELSE data_type

----------------------------------------------------------------------------
(* Checked division of primitive arrays of i8 *)

Int8 == DataType("Int8", <<>>)

\* the values of i8
I8 == -128..127

None == [some |-> FALSE, value |-> 0]

Some(x) == [some |-> TRUE, value |-> x]

Abs(x) == IF x < 0 THEN -x ELSE x

\* a / b on integers: the quotient truncated toward zero, b # 0
TruncDiv(a, b) ==
    LET q == Abs(a) \div Abs(b)
    IN  IF (a < 0) # (b < 0) THEN -q ELSE q

\* a / b on i8 in a build without overflow checks: the low 8 bits of the quotient
WrappingDivI8(a, b) == ((TruncDiv(a, b) + 128) % 256) - 128

\* i8::checked_div: None for a zero divisor and for MIN / -1
I8CheckedDiv(a, b) ==
    IF b = 0 \/ (a = -128 /\ b = -1) THEN None ELSE Some(TruncDiv(a, b))

\* an op that guards the zero divisor only
DivOpZeroOnly(a, b) == IF b = 0 THEN None ELSE Some(WrappingDivI8(a, b))

\* let op = move |a: T, b: T| a.checked_div(&b);
DivOp(a, b) == I8CheckedDiv(a, b)

\* the divisor of ArrayCheckedDiv: an array or a scalar
ArrayOperand(a) == [kind |-> "array", v |-> a]

ScalarOperand(x) == [kind |-> "scalar", v |-> x]

\* binary_checked(lhs, rhs, data_type, op) with checked_div's op: the two arrays must
\* have the same length; op runs on every pair of values, a None clears the slot's
\* validity bit and stores T::default(), and the validities of both operands are
\* combined with those bits
binary_checked(l, r, data_type) ==
    IF Len(l.values) # Len(r.values) THEN Panic
    ELSE LET n == Len(l.values)
             o == [i \in 1..n |-> DivOp(l.values[i], r.values[i])]
         IN  Ok(PrimitiveArray(data_type,
                               [i \in 1..n |-> IF o[i].some THEN o[i].value ELSE 0],
                               [i \in 1..n |-> l.validity[i] /\ r.validity[i] /\ o[i].some]))

\* unary_checked(array, op, data_type) with checked_div_scalar's op
unary_checked(l, r, data_type) ==
    LET n == Len(l.values)
        o == [i \in 1..n |-> DivOp(l.values[i], r)]
    IN  Ok(PrimitiveArray(data_type,
                          [i \in 1..n |-> IF o[i].some THEN o[i].value ELSE 0],
                          [i \in 1..n |-> l.validity[i] /\ o[i].some]))

\* checked_div(lhs, rhs)
checked_div(l, r) == binary_checked(l, r, l.data_type)

\* checked_div_scalar(lhs, rhs)
checked_div_scalar(l, r) == unary_checked(l, r, l.data_type)

----------------------------------------------------------------------------
(* Initial state shared by the specifications *)

EmptyArray == PrimitiveArray(Int32, <<>>, <<>>)

\* no division is under way
NoDivision ==
    /\ lhs = EmptyArray
    /\ rhs = ArrayOperand(EmptyArray)
    /\ div_result = NoResult

\* a column decode that has not started
StartColumn(f, tape, v) ==
    /\ overflow_checks \in BOOLEAN
    /\ value = v
    /\ field = f
    /\ source = tape
    /\ nested = <<>>
    /\ pc = "new"
    /\ is_nullable = FALSE
    /\ values = <<>>
    /\ validity = <<>>
    /\ pulled = 0
    /\ result = NoResult
    /\ levels_run = 0
    /\ pushes = <<>>
    /\ a_pc = "new"
    /\ a_values = <<>>
    /\ a_validity = <<>>
    /\ a_pulled = 0
    /\ a_result = NoResult
    /\ a_levels_run = 0
    /\ array = EmptyArray
    /\ cl_result = NoResult

Start(f, tape, v) == StartColumn(f, tape, v) /\ NoDivision

syncVars == <<nested, pc, is_nullable, values, validity, pulled, result, levels_run, pushes>>

asyncVars == <<a_pc, a_values, a_validity, a_pulled, a_result, a_levels_run>>

inputVars == <<overflow_checks, field, source, value>>

divVars == <<lhs, rhs, div_result>>

----------------------------------------------------------------------------
(* The caller builds the Nested State Stack once per column *)

InitNested ==
    /\ pc = "new"
    /\ LET r == init_nested(field, <<>>)
       IN  /\ nested' = r.container
           /\ pc' = IF r.panicked THEN "panicked" ELSE "inited"
    /\ UNCHANGED <<is_nullable, values, validity, pulled, result, levels_run, pushes,
                   array, cl_result>>
    /\ UNCHANGED asyncVars
    /\ UNCHANGED inputVars
    /\ UNCHANGED divVars

----------------------------------------------------------------------------
(* iter_to_array *)

\* entry: the buffers are allocated and the innermost Level State is popped
IterBegin ==
    /\ pc = "inited"
    /\ IF nested = <<>>
       THEN /\ pc' = "panicked"
            /\ UNCHANGED <<nested, is_nullable>>
       ELSE /\ is_nullable' = IsNullable(Last(nested))
            /\ nested' = Front(nested)
            /\ pc' = "iter"
    /\ values' = <<>>
    /\ validity' = <<>>
    /\ UNCHANGED <<pulled, result, levels_run, pushes, array, cl_result>>
    /\ UNCHANGED asyncVars
    /\ UNCHANGED inputVars
    /\ UNCHANGED divVars

\* loop body: iter.next()? yields a page, which extends the stack and the leaf buffer
IterPage ==
    /\ pc = "iter"
    /\ pulled < Len(source)
    /\ source[pulled + 1].ok
    /\ pulled' = pulled + 1
    /\ LET page == source[pulled + 1]
           max_rep == MaxRepLevel(field)
           max_def == MaxDefLevel(field)
           buf == [values |-> values, validity |-> validity]
       IN  IF nested = <<>>
           THEN LET b == BasicLeaf(page.levels, 1, pulled + 1, max_def, buf)
                IN  /\ values' = b.values
                    /\ validity' = b.validity
                    /\ UNCHANGED <<nested, pc, levels_run, pushes>>
           ELSE LET r == ExtendOffsets(page.levels, is_nullable, max_rep, max_def, nested,
                                       overflow_checks)
                    b == NestedLeaf(page.levels, 1, pulled + 1, is_nullable, max_def, buf)
                IN  /\ nested' = r.nested
                    /\ pushes' = r.pushes
                    /\ levels_run' = levels_run + 1
                    /\ IF r.panicked
                       THEN /\ pc' = "panicked"
                            /\ UNCHANGED <<values, validity>>
                       ELSE /\ pc' = pc
                            /\ values' = b.values
                            /\ validity' = b.validity
    /\ UNCHANGED <<is_nullable, result, array, cl_result>>
    /\ UNCHANGED asyncVars
    /\ UNCHANGED inputVars
    /\ UNCHANGED divVars

\* the failure is skipped and the loop goes on to the next page
IterPageErrorSkipped ==
    /\ pc = "iter"
    /\ pulled < Len(source)
    /\ ~source[pulled + 1].ok
    /\ pulled' = pulled + 1
    /\ UNCHANGED <<nested, pc, is_nullable, values, validity, result, levels_run, pushes,
                   array, cl_result>>
    /\ UNCHANGED asyncVars
    /\ UNCHANGED inputVars
    /\ UNCHANGED divVars

\* loop body: iter.next()? yields a failure, which `?` returns
IterPageError ==
    /\ pc = "iter"
    /\ pulled < Len(source)
    /\ ~source[pulled + 1].ok
    /\ pulled' = pulled + 1
    /\ result' = Err(SourceError)
    /\ pc' = "failed"
    /\ UNCHANGED <<nested, is_nullable, values, validity, levels_run, pushes, array, cl_result>>
    /\ UNCHANGED asyncVars
    /\ UNCHANGED inputVars
    /\ UNCHANGED divVars

\* the iterator is exhausted: the leaf buffer becomes the returned array
IterFinish ==
    /\ pc = "iter"
    /\ pulled = Len(source)
    /\ result' = Ok(PrimitiveArray(OutputType(LeafType(field)), values, validity))
    /\ array' = PrimitiveArray(OutputType(LeafType(field)), values, validity)
    /\ pc' = "done"
    /\ UNCHANGED <<nested, is_nullable, values, validity, pulled, levels_run, pushes, cl_result>>
    /\ UNCHANGED asyncVars
    /\ UNCHANGED inputVars
    /\ UNCHANGED divVars

SyncReturned == pc \in {"done", "failed", "panicked"}

----------------------------------------------------------------------------
(* stream_to_array, run over the same page sequence once the synchronous *)
(* decode of the column has returned; the two calls share no state       *)

StreamBegin ==
    /\ SyncReturned
    /\ a_pc = "new"
    /\ a_values' = <<>>
    /\ a_validity' = <<>>
    /\ a_pc' = "stream"
    /\ UNCHANGED <<a_pulled, a_result, a_levels_run, array, cl_result>>
    /\ UNCHANGED syncVars
    /\ UNCHANGED inputVars
    /\ UNCHANGED divVars

\* pages.next().await yields a page
StreamPage ==
    /\ a_pc = "stream"
    /\ a_pulled < Len(source)
    /\ source[a_pulled + 1].ok
    /\ a_pulled' = a_pulled + 1
    /\ LET b == BasicLeaf(source[a_pulled + 1].levels, 1, a_pulled + 1, MaxDefLevel(field),
                          [values |-> a_values, validity |-> a_validity])
       IN  /\ a_values' = b.values
           /\ a_validity' = b.validity
    /\ UNCHANGED <<a_pc, a_result, a_levels_run, array, cl_result>>
    /\ UNCHANGED syncVars
    /\ UNCHANGED inputVars
    /\ UNCHANGED divVars

\* pages.next().await yields a failure, which `?` returns
StreamPageError ==
    /\ a_pc = "stream"
    /\ a_pulled < Len(source)
    /\ ~source[a_pulled + 1].ok
    /\ a_pulled' = a_pulled + 1
    /\ a_result' = Err(SourceError)
    /\ a_pc' = "failed"
    /\ UNCHANGED <<a_values, a_validity, a_levels_run, array, cl_result>>
    /\ UNCHANGED syncVars
    /\ UNCHANGED inputVars
    /\ UNCHANGED divVars

\* the array is built without unwrapping a dictionary type
StreamFinishKeepsDictionary ==
    /\ a_pc = "stream"
    /\ a_pulled = Len(source)
    /\ a_result' = Ok(PrimitiveArray(LeafType(field), a_values, a_validity))
    /\ a_pc' = "done"
    /\ UNCHANGED <<a_values, a_validity, a_pulled, a_levels_run, array, cl_result>>
    /\ UNCHANGED syncVars
    /\ UNCHANGED inputVars
    /\ UNCHANGED divVars

\* the stream is exhausted
StreamFinish ==
    /\ a_pc = "stream"
    /\ a_pulled = Len(source)
    /\ a_result' = Ok(PrimitiveArray(OutputType(LeafType(field)), a_values, a_validity))
    /\ a_pc' = "done"
    /\ UNCHANGED <<a_values, a_validity, a_pulled, a_levels_run, array, cl_result>>
    /\ UNCHANGED syncVars
    /\ UNCHANGED inputVars
    /\ UNCHANGED divVars

----------------------------------------------------------------------------
(* create_list, called on the returned leaf array by the code that assembles *)
(* the nested array                                                         *)

CreateList(data_type) ==
    /\ pc = "done"
    /\ cl_result # Panic
    /\ LET r == create_list(data_type, nested, array)
       IN  CASE r.outcome = "ok" ->
                    /\ nested' = r.nested
                    /\ array' = r.value
                    /\ cl_result' = Ok(r.value)
             [] r.outcome = "err" ->
                    /\ nested' = r.nested
                    /\ cl_result' = Err(r.value)
                    /\ UNCHANGED array
             [] r.outcome = "panic" ->
                    /\ cl_result' = Panic
                    /\ UNCHANGED <<nested, array>>
    /\ UNCHANGED <<pc, is_nullable, values, validity, pulled, result, levels_run, pushes>>
    /\ UNCHANGED asyncVars
    /\ UNCHANGED inputVars
    /\ UNCHANGED divVars

----------------------------------------------------------------------------
(* Specification of one column decode: both orchestrations over one page source *)

Init == \E f \in Columns : \E tape \in Tapes(f) : Start(f, tape, <<>>)

Next ==
    \/ InitNested
    \/ IterBegin
    \/ IterPage
    \/ IterPageError
    \/ IterFinish
    \/ StreamBegin
    \/ StreamPage
    \/ StreamPageError
    \/ StreamFinish

Spec == Init /\ [][Next]_vars

----------------------------------------------------------------------------
(* Properties of the column decode *)

\* the stack iter_to_array works on: the column's stack without its innermost level
InitStack(f) == Front(init_nested(f, <<>>).container)

\* a flat column: its stack holds the leaf's terminal Level State only
Flat(f) == Len(init_nested(f, <<>>).container) = 1

RECURSIVE OkItems(_, _)
\* number of data pages among the first n items of the page source
OkItems(tape, n) ==
    IF n = 0 THEN 0 ELSE OkItems(tape, n - 1) + (IF tape[n].ok THEN 1 ELSE 0)

\* the page source first fails at item k
FirstFailure(k) ==
    /\ k \in 1..Len(source)
    /\ ~source[k].ok
    /\ \A j \in 1..(k - 1) : source[j].ok

\* the most recent extend_offsets call decoded a page and returned
PageDecoded == pc \in {"iter", "done"} /\ levels_run >= 1

AllNull(levels) == \A i \in 1..Len(levels) : levels[i] = <<0, 0>>

\* C5 (as claimed): for the first level pair processed, whatever its rep and whatever
\* follows, the closure count is max_rep and every container Level State's offsets
\* begin with 0.
C5_FirstPairOverride ==
    PageDecoded =>
        /\ Closures(source[1].levels[1][1], 0, TRUE, MaxRepLevel(field)) = MaxRepLevel(field)
        /\ \A i \in 1..Len(nested) :
              IsContainer(nested[i]) =>
                  nested[i].offsets # <<>> /\ nested[i].offsets[1] = 0

BothReturned == pc \in {"done", "failed"} /\ a_pc \in {"done", "failed"}

C8_UpstreamPageError ==
    \A k \in 1..Len(source) :
        FirstFailure(k) =>
            /\ pulled <= k
            /\ a_pulled <= k
            /\ result.tag # "ok"
            /\ a_result.tag # "ok"
            /\ array = EmptyArray
            /\ pc # "done"
            /\ a_pc # "done"
            /\ pulled = k => (pc = "failed" /\ result = Err(SourceError))
            /\ a_pulled = k => (a_pc = "failed" /\ a_result = Err(SourceError))

\* C8 witness: both orchestrations failed at item 2 of 3, after decoding page 1
C8_Witness ==
    /\ FirstFailure(2)
    /\ Len(source) = 3
    /\ pc = "failed"
    /\ a_pc = "failed"
    /\ pulled = 2
    /\ a_pulled = 2
    /\ values # <<>>
    /\ a_values # <<>>

\* C11 (as claimed): extend_offsets completes without failure on every page whose
\* level pairs have rep in [0, max_rep] and def in [0, max_def]: neither max_rep - rep
\* nor def - rep underflows, so no call of it ends in a panic.
C11_NoUnderflow == levels_run >= 1 => pc # "panicked"

\* depths into which the pair number k (from 0) of the decoded page was pushed
PushedDepths(k) == {d \in 0..(Len(pushes) - 1) : \E j \in 1..Len(pushes[d + 1]) : pushes[d + 1][j].pair = k}

\* closure count of pair number k (from 0) of a page
ClosuresOfPair(levels, k, max_rep) ==
    Closures(levels[k + 1][1], IF k = 0 THEN 0 ELSE levels[k][2], k = 0, max_rep)

\* C13 (as claimed): for each level pair (rep, def) of a decoded page, with closure
\* count c, extend_offsets pushes into exactly the Level States at the depths of
\* [rep, rep + c) that exist in the stack, for every stack length.
C13_PushWindow ==
    PageDecoded =>
        LET levels == source[pulled].levels
        IN  \A k \in 0..(Len(levels) - 1) :
                PushedDepths(k) =
                    {d \in 0..(Len(nested) - 1) :
                        /\ d >= levels[k + 1][1]
                        /\ d < levels[k + 1][1] + ClosuresOfPair(levels, k, MaxRepLevel(field))}

----------------------------------------------------------------------------
(* Decoding the level encoding of a list value: a nullable list of non-nullable *)
(* leaf elements, max_rep = 1, max_def = 2                                       *)

\* one outer slot of the value: a null list, or a list of len leaf elements
NullList == [null |-> TRUE, len |-> 0]

ListOf(n) == [null |-> FALSE, len |-> n]

ListSlots == {NullList} \cup {ListOf(n) : n \in 0..MaxElems}

ListValues == UNION {SeqsOfLen(ListSlots, n) : n \in 0..MaxLists}

RECURSIVE Repeat(_, _)
Repeat(x, n) == IF n = 0 THEN <<>> ELSE <<x>> \o Repeat(x, n - 1)

\* rep/def levels of one outer slot: def 0 for a null list, 1 for an empty list,
\* 2 for an element; rep 0 opens the slot, rep 1 continues its list
EncodeSlot(e) ==
    IF e.null THEN <<<<0, 0>>>>
    ELSE IF e.len = 0 THEN <<<<0, 1>>>>
    ELSE <<<<0, 2>>>> \o Repeat(<<1, 2>>, e.len - 1)

RECURSIVE Encode(_)
Encode(v) == IF v = <<>> THEN <<>> ELSE EncodeSlot(Head(v)) \o Encode(Tail(v))

RECURSIVE ExpectedOffsets(_)
\* offsets of the list array that holds v
ExpectedOffsets(v) ==
    IF v = <<>> THEN <<0>>
    ELSE LET front == ExpectedOffsets(Front(v))
         IN  Append(front, Last(front) + Last(v).len)

NullSlots(v) == {i \in 1..Len(v) : v[i].null}

\* the encoded levels as one page, or cut into two pages at any pair
Splits(levels) ==
    {<<OkPage(levels)>>}
        \cup {<<OkPage(SubSeq(levels, 1, k)), OkPage(SubSeq(levels, k + 1, Len(levels)))>> :
                k \in 1..(Len(levels) - 1)}

ListColumns ==
    { Field(DataType("List", <<Field(Int32, FALSE)>>), TRUE),
      Field(DataType("LargeList", <<Field(Int32, FALSE)>>), TRUE) }

InitEncoded ==
    \E f \in ListColumns : \E v \in ListValues : \E tape \in Splits(Encode(v)) : Start(f, tape, v)

NextEncoded ==
    \/ InitNested
    \/ IterBegin
    \/ IterPage
    \/ IterFinish
    \/ CreateList(field.data_type)

SpecEncoded == InitEncoded /\ [][NextEncoded]_vars

RECURSIVE AllLevels(_)
\* the level pairs of all pages of a page sequence, concatenated
AllLevels(tape) == IF tape = <<>> THEN <<>> ELSE Head(tape).levels \o AllLevels(Tail(tape))

NonDecreasing(s) == \A i \in 1..(Len(s) - 1) : s[i] <= s[i + 1]

\* null slots of a materialised list array
ArrayNullSlots(a) ==
    IF a.validity.some THEN {i \in 1..Len(a.validity.bits) : ~a.validity.bits[i]} ELSE {}

\* C1 (as claimed): after any number of pages decoded on the same stack, every
\* container Level State's offsets are non-decreasing and begin with 0.
C1_OffsetsMonotoneFromZero ==
    PageDecoded =>
        \A i \in 1..Len(nested) :
            IsContainer(nested[i]) =>
                /\ nested[i].offsets # <<>>
                /\ nested[i].offsets[1] = 0
                /\ NonDecreasing(nested[i].offsets)

\* C2 (as claimed): after any number of pages decoded on the same stack, every
\* Optional Level State has offsets.len() - 1 = validity.len().
C2_OffsetsAlignValidity ==
    PageDecoded =>
        \A i \in 1..Len(nested) :
            nested[i].kind = "Optional" =>
                Len(nested[i].offsets) - 1 = Len(nested[i].validity)

\* C3: a list value encoded to levels, decoded as a single page and materialised by
\* create_list gives the value's offsets and the value's null outer slots.
C3_RoundTrip ==
    (source = <<OkPage(Encode(value))>> /\ pc = "done" /\ cl_result.tag = "ok") =>
        /\ cl_result.value.offsets = ExpectedOffsets(value)
        /\ ArrayNullSlots(cl_result.value) = NullSlots(value)
        /\ cl_result.value.data_type = field.data_type
        /\ nested = <<>>

\* C3 witness: [[a, b], null, [c]] was decoded and materialised
C3_Witness ==
    /\ value = <<ListOf(2), NullList, ListOf(1)>>
    /\ source = <<OkPage(Encode(value))>>
    /\ pc = "done"
    /\ cl_result.tag = "ok"
    /\ cl_result.value.offsets = <<0, 2, 2, 3>>
    /\ cl_result.value.validity.bits = <<TRUE, FALSE, TRUE>>
    /\ cl_result.value.values.values # <<>>

\* C4 (as claimed): decoding the level pairs as consecutive pages leaves every Level
\* State as decoding the concatenated pairs as one page leaves it.
C4_PageSplitInvariance ==
    (pc = "done" /\ cl_result = NoResult) =>
        nested = ExtendOffsets(AllLevels(source), is_nullable, MaxRepLevel(field),
                               MaxDefLevel(field), InitStack(field), overflow_checks).nested

----------------------------------------------------------------------------
(* Building and draining the stack of any schema: the column's decode pulls no *)
(* page, and create_list is then called with any target type                   *)

LeafFields == {Field(DataType(t, <<>>), n) : t \in {"Int32", "Union"}, n \in BOOLEAN}

RECURSIVE FieldsOfSize(_)
RECURSIVE Forests(_)

\* sequences of fields that have m fields in all
Forests(m) ==
    IF m = 0 THEN {<<>>}
    ELSE UNION {{<<c>> \o rest : c \in FieldsOfSize(j), rest \in Forests(m - j)} : j \in 1..m}

\* schemas made of exactly n fields
FieldsOfSize(n) ==
    IF n = 1 THEN LeafFields
    ELSE {Field(DataType(t, <<c>>), nl) : t \in ListTags, nl \in BOOLEAN, c \in FieldsOfSize(n - 1)}
         \cup {Field(DataType("Struct", cs), nl) : nl \in BOOLEAN, cs \in Forests(n - 1)}

Schemas == UNION {FieldsOfSize(n) : n \in 1..MaxFields}

\* target types handed to create_list
TargetTypes == {DataType(t, <<>>) : t \in {"List", "LargeList", "FixedSizeList", "Struct"}}

InitSchema == \E f \in Schemas : Start(f, <<>>, <<>>)

NextSchema ==
    \/ InitNested
    \/ IterBegin
    \/ IterFinish
    \/ \E dt \in TargetTypes : CreateList(dt)

SpecSchema == InitSchema /\ [][NextSchema]_vars

RECURSIVE PreOrder(_)
RECURSIVE PreOrderAll(_)

PreOrderAll(fields) ==
    IF fields = <<>> THEN <<>> ELSE PreOrder(Head(fields)) \o PreOrderAll(Tail(fields))

\* the fields of a schema in pre-order: a field, then the fields below it in schema order
PreOrder(f) ==
    IF f.data_type.tag \in ListTags \cup {"Struct"}
    THEN <<f>> \o PreOrderAll(f.data_type.fields)
    ELSE <<f>>

\* C9: create_list with a target type that is neither list nor large-list returns
\* NotYetImplemented naming the type and leaves the stack as it is; with list or
\* large-list (and a Level State left) it pops exactly the innermost Level State.
C9_CreateList ==
    [][\A dt \in TargetTypes :
          CreateList(dt) =>
              IF dt.tag \in {"List", "LargeList"}
              THEN nested # <<>> =>
                      /\ nested' = Front(nested)
                      /\ cl_result'.tag = "ok"
                      /\ cl_result'.value.data_type = dt
                      /\ cl_result'.value.offsets = Last(nested).offsets
                      /\ cl_result'.value.values = array
              ELSE /\ nested' = nested
                   /\ array' = array
                   /\ cl_result' = Err(NotYetImplemented(dt))]_vars

\* C9 witness: one Level State was popped into a list array, and a later call with
\* another target type failed with a Level State still on the stack
C9_Witness ==
    /\ array.array = "List"
    /\ cl_result.tag = "err"
    /\ cl_result.error.error = "NotYetImplemented"
    /\ nested # <<>>

\* C10: init_nested pushes one Level State per field of the schema in pre-order, and
\* the Level State of a field reports is_nullable() equal to the field's nullability
\* (so two stacks built from one field agree in length and in every flag).
C10_InitNestedPreOrder ==
    pc = "inited" =>
        /\ Len(nested) = Len(PreOrder(field))
        /\ \A d \in 1..Len(nested) : IsNullable(nested[d]) = PreOrder(field)[d].is_nullable

\* C10 witness: the stack of a non-nullable list of a nullable struct of a
\* non-nullable leaf
C10_Witness ==
    /\ pc = "inited"
    /\ field.data_type.tag \in ListTags
    /\ field.data_type.fields[1].data_type.tag = "Struct"
    /\ Len(nested) = 3
    /\ nested[1].kind = "Valid"
    /\ nested[2].kind = "Primitive"
    /\ nested[2].is_nullable
    /\ ~nested[3].is_nullable

----------------------------------------------------------------------------
(* Checked division of an i8 array by an i8 array or an i8 scalar *)

\* operand values the arrays are drawn from
I8Samples == {-128, -7, -1, 0, 2, 127}

\* one slot of an array built from Option values: None stores T::default()
SlotsOf(S) == {None} \cup {Some(x) : x \in S}

ArrayFrom(slots) ==
    PrimitiveArray(Int8,
                   [i \in 1..Len(slots) |-> IF slots[i].some THEN slots[i].value ELSE 0],
                   [i \in 1..Len(slots) |-> slots[i].some])

Int8Arrays == {ArrayFrom(s) : s \in UNION {SeqsOfLen(SlotsOf(I8Samples), n) : n \in 0..MaxLen}}

\* <PrimitiveArray<T> as ArrayCheckedDiv<PrimitiveArray<T>>>::checked_div
CheckedDiv ==
    /\ div_result = NoResult
    /\ rhs.kind = "array"
    /\ div_result' = checked_div(lhs, rhs.v)
    /\ UNCHANGED <<lhs, rhs>>
    /\ UNCHANGED <<array, cl_result>>
    /\ UNCHANGED syncVars
    /\ UNCHANGED asyncVars
    /\ UNCHANGED inputVars

\* <PrimitiveArray<T> as ArrayCheckedDiv<T>>::checked_div
CheckedDivScalar ==
    /\ div_result = NoResult
    /\ rhs.kind = "scalar"
    /\ div_result' = checked_div_scalar(lhs, rhs.v)
    /\ UNCHANGED <<lhs, rhs>>
    /\ UNCHANGED <<array, cl_result>>
    /\ UNCHANGED syncVars
    /\ UNCHANGED asyncVars
    /\ UNCHANGED inputVars

InitDiv ==
    /\ StartColumn(Field(Int8, FALSE), <<>>, <<>>)
    /\ lhs \in Int8Arrays
    /\ rhs \in {ArrayOperand(a) : a \in Int8Arrays} \cup {ScalarOperand(x) : x \in I8Samples}
    /\ div_result = NoResult

NextDiv ==
    \/ CheckedDiv
    \/ CheckedDivScalar

SpecDiv == InitDiv /\ [][NextDiv]_vars

\* what the claim gives for one slot: the quotient, valid, where both operands are
\* valid, the divisor is not zero and the quotient is an i8; null otherwise
SlotAsClaimed(res, i, a, a_valid, b, b_valid) ==
    IF a_valid /\ b_valid /\ b # 0 /\ TruncDiv(a, b) \in I8
    THEN res.validity[i] /\ res.values[i] = TruncDiv(a, b)
    ELSE ~res.validity[i]

\* C12: checked_div over two arrays of the same length does not panic and returns an
\* array of that length and type whose every slot is the quotient, valid, where both
\* operands are valid, the divisor is not zero and the quotient is representable, and
\* null where the divisor is zero, the quotient overflows or an operand is null; the
\* same holds slot by slot for checked_div_scalar.
C12_CheckedDiv ==
    /\ (div_result # NoResult /\ rhs.kind = "array" /\ Len(lhs.values) = Len(rhs.v.values)) =>
          /\ div_result.tag = "ok"
          /\ div_result.value.data_type = lhs.data_type
          /\ Len(div_result.value.values) = Len(lhs.values)
          /\ Len(div_result.value.validity) = Len(lhs.values)
          /\ \A i \in 1..Len(lhs.values) :
                SlotAsClaimed(div_result.value, i, lhs.values[i], lhs.validity[i],
                              rhs.v.values[i], rhs.v.validity[i])
    /\ (div_result # NoResult /\ rhs.kind = "scalar") =>
          /\ div_result.tag = "ok"
          /\ Len(div_result.value.values) = Len(lhs.values)
          /\ \A i \in 1..Len(lhs.values) :
                SlotAsClaimed(div_result.value, i, lhs.values[i], lhs.validity[i], rhs.v, TRUE)

\* C12 witness: [-128, -7] / [-1, 2] gave [null, -3]
C12_Witness ==
    /\ lhs = ArrayFrom(<<Some(-128), Some(-7)>>)
    /\ rhs = ArrayOperand(ArrayFrom(<<Some(-1), Some(2)>>))
    /\ div_result = Ok(PrimitiveArray(Int8, <<0, -3>>, <<FALSE, TRUE>>))

----------------------------------------------------------------------------
(* Decoding the level encoding of a list of lists of leaf values: max_rep = 2, *)
(* no null list and no null leaf                                               *)

\* an inner list is given by its number of leaves, a row by its inner lists
InnerLists == 0..MaxElems

Rows == UNION {SeqsOfLen(InnerLists, n) : n \in 0..MaxInner}

\* the values of at most `rows` rows
ListListValues(rows) == UNION {SeqsOfLen(Rows, n) : n \in 0..rows}

\* levels of one inner list that opens at repetition level r; the definition level
\* of an empty row is base, of an empty inner list base + 1, of a leaf base + 2
EncodeInner(len, r, base) ==
    IF len = 0 THEN <<<<r, base + 1>>>>
    ELSE <<<<r, base + 2>>>> \o Repeat(<<2, base + 2>>, len - 1)

RECURSIVE EncodeInners(_, _, _)
EncodeInners(row, r, base) ==
    IF row = <<>> THEN <<>>
    ELSE EncodeInner(Head(row), r, base) \o EncodeInners(Tail(row), 1, base)

EncodeRow(row, base) == IF row = <<>> THEN <<<<0, base>>>> ELSE EncodeInners(row, 0, base)

RECURSIVE EncodeRows(_, _)
EncodeRows(v, base) == IF v = <<>> THEN <<>> ELSE EncodeRow(Head(v), base) \o EncodeRows(Tail(v), base)

\* the level pairs of value v in column f: a nullable outer list adds one definition level
EncodeListList(f, v) == EncodeRows(v, IF f.is_nullable THEN 1 ELSE 0)

ListListColumns ==
    {Field(DataType("List", <<Field(DataType("List", <<Field(Int32, FALSE)>>), FALSE)>>), n) :
        n \in BOOLEAN}

InitListList ==
    \E f \in ListListColumns : \E v \in ListListValues(MaxRows) :
        Start(f, <<OkPage(EncodeListList(f, v))>>, v)

NextListList ==
    \/ InitNested
    \/ IterBegin
    \/ IterPage
    \/ IterFinish

SpecListList == InitListList /\ [][NextListList]_vars

RECURSIVE Concat(_)
Concat(ss) == IF ss = <<>> THEN <<>> ELSE Head(ss) \o Concat(Tail(ss))

RECURSIVE Cumulate(_)
\* offsets of consecutive lists of the given lengths
Cumulate(lens) ==
    IF lens = <<>> THEN <<0>>
    ELSE LET front == Cumulate(Front(lens))
         IN  Append(front, Last(front) + Last(lens))

\* offsets of the outer list array of v: one list of inner lists per row
OuterOffsets(v) == Cumulate([i \in 1..Len(v) |-> Len(v[i])])

\* offsets of the inner list array of v: one list of leaves per inner list
InnerOffsets(v) == Cumulate(Concat(v))

\* C14 (as claimed): for every value of a list of lists of leaves, empty inner lists
\* included, decoding its level pairs as a single page leaves at depth 0 the offsets
\* of the value's outer lists and at depth 1 the offsets of its inner lists.
C14_RoundTripTwoLevels ==
    (pc = "done" /\ source = <<OkPage(EncodeListList(field, value))>>) =>
        /\ nested[1].offsets = OuterOffsets(value)
        /\ nested[2].offsets = InnerOffsets(value)

====
